---------------------------- MODULE Spec2Model ----------------------------
(***************************************************************************)
(* A model of the interaction core of egui-gizmo: the translation handles  *)
(* (src/src/translation.rs), the rotation handle (src/src/rotation.rs) and  *)
(* the handle value that dispatches to them (src/src/subgizmo.rs).          *)
(*                                                                         *)
(* Numbers.  World and screen coordinates are integers, vectors are        *)
(* triples <<x, y, z>>.  One model unit of world length stands for 1e-5,    *)
(* so that the snapping threshold 1e-5 of the source is the integer 1.      *)
(* Angles are whole degrees: PI is 180.  Every quantity of the model is a   *)
(* small integer, which f32 and f64 both hold exactly, so the `as f32` and  *)
(* `as_vec3` casts of the source keep the value they are given.            *)
(* Comparisons of a Euclidean length with a bound are written on the       *)
(* squares.                                                                *)
(***************************************************************************)
EXTENDS Integers, Sequences, FiniteSets, TLC

VARIABLES
    handle,       \* the SubGizmo's identity and the configuration it reads
    host,         \* whether the host writes returned transforms back
    translation,  \* config.translation, which the host rewrites from results
    tstate,       \* the persisted TranslationState of the handle
    rstate,       \* the persisted RotationState of the handle
    call,         \* the last call on the handle: operation, inputs, result
    drag,         \* history of the current drag, for statements over a drag
    arc           \* the last two evaluations of arc_angle

vars == <<handle, host, translation, tstate, rstate, call, drag, arc>>

\* Option<T>: None, or Some(x).
None == <<>>

Some(x) == <<x>>

Unwrap(o) == o[1]

(***************************************************************************)
(* Vectors (glam::DVec3, DVec2).                                           *)
(***************************************************************************)
ZERO == <<0, 0, 0>>

Add(a, b) == <<a[1] + b[1], a[2] + b[2], a[3] + b[3]>>

Sub(a, b) == <<a[1] - b[1], a[2] - b[2], a[3] - b[3]>>

Scale(a, k) == <<a[1] * k, a[2] * k, a[3] * k>>

Neg(a) == Scale(a, -1)

Dot(a, b) == a[1] * b[1] + a[2] * b[2] + a[3] * b[3]

Cross(a, b) ==
    <<a[2] * b[3] - a[3] * b[2], a[3] * b[1] - a[1] * b[3], a[1] * b[2] - a[2] * b[1]>>

LengthSq(a) == Dot(a, a)

Abs(x) == IF x < 0 THEN -x ELSE x

Sign(x) == IF x < 0 THEN -1 ELSE IF x > 0 THEN 1 ELSE 0

\* The length of a vector that lies along a coordinate axis (the only vectors
\* whose length the model takes): exact, no square root is approximated.
Length(a) ==
    CASE a[2] = 0 /\ a[3] = 0 -> Abs(a[1])
      [] a[1] = 0 /\ a[3] = 0 -> Abs(a[2])
      [] a[1] = 0 /\ a[2] = 0 -> Abs(a[3])

\* v * (n / d), for a fraction that the model's inputs make exact.
MulFrac(v, n, d) == <<(v[1] * n) \div d, (v[2] * n) \div d, (v[3] * n) \div d>>

(***************************************************************************)
(* Geometric primitives of crate::math.  The module is not among the       *)
(* sources; each primitive is modelled from its contract.                  *)
(***************************************************************************)

\* The multiple of `interval` nearest to `val`, a tie going away from zero
\* (f64::round); an interval that is not positive means no snapping.
round_to_interval(val, interval) ==
    IF interval <= 0 THEN val
    ELSE Sign(val) * (((2 * Abs(val) + interval) \div (2 * interval)) * interval)

\* The parameters <<t1, t2>> of the closest approach of the lines o1 + t1*d1 and
\* o2 + t2*d2 (the skew-line closed form); <<0, 0>> when the lines are parallel.
ray_to_ray(o1, d1, o2, d2) ==
    LET a == Dot(d1, d1)
        b == Dot(d1, d2)
        c == Dot(d2, d2)
        w == Sub(o1, o2)
        d == Dot(d1, w)
        e == Dot(d2, w)
        denom == a * c - b * b
    IN  IF denom = 0 THEN <<0, 0>>
        ELSE <<(b * e - c * d) \div denom, (a * e - b * d) \div denom>>

\* The closest points of the segments [a0, a1] and [b0, b1], each parameter
\* clamped to [0, 1] and given as a fraction: [sn, sd, tn, td] for the
\* parameters sn/sd on the first and tn/td on the second segment.
segment_to_segment(a0, a1, b0, b1) ==
    LET u == Sub(a1, a0)
        v == Sub(b1, b0)
        w == Sub(a0, b0)
        a == Dot(u, u)
        b == Dot(u, v)
        c == Dot(v, v)
        d == Dot(u, w)
        e == Dot(v, w)
        D == a * c - b * b
        \* the unclamped optimum, then the first segment's clamp
        s1 == IF D = 0 THEN [sn |-> 0, sd |-> 1, tn |-> e, td |-> c]
              ELSE LET sN == b * e - c * d
                       tN == a * e - b * d
                   IN  IF sN < 0 THEN [sn |-> 0, sd |-> D, tn |-> e, td |-> c]
                       ELSE IF sN > D THEN [sn |-> D, sd |-> D, tn |-> e + b, td |-> c]
                       ELSE [sn |-> sN, sd |-> D, tn |-> tN, td |-> D]
        \* the second segment's clamp, the first parameter recomputed for it
        Reclamp(m) == IF m < 0 THEN [sn |-> 0, sd |-> 1]
                      ELSE IF m > a THEN [sn |-> 1, sd |-> 1]
                      ELSE [sn |-> m, sd |-> a]
    IN  IF s1.tn < 0
        THEN [sn |-> Reclamp(-d).sn, sd |-> Reclamp(-d).sd, tn |-> 0, td |-> 1]
        ELSE IF s1.tn > s1.td
        THEN [sn |-> Reclamp(b - d).sn, sd |-> Reclamp(b - d).sd, tn |-> 1, td |-> 1]
        ELSE s1

\* The intersection of the ray with the plane through plane_origin: whether
\* there is one, and the ray parameter t.  There is none when the ray is
\* parallel to the plane.
intersect_plane(plane_normal, plane_origin, ray_origin, ray_dir) ==
    LET denom == Dot(plane_normal, ray_dir)
    IN  IF denom = 0 THEN [hit |-> FALSE, t |-> 0]
        ELSE [hit |-> TRUE,
              t |-> Dot(Sub(plane_origin, ray_origin), plane_normal) \div denom]

\* The ray parameter of the ray/plane intersection and the (squared) distance
\* of the intersection from the plane's origin; without an intersection the
\* distance is the sentinel "no finite distance" (hit = FALSE) and t is 0.
ray_to_plane_origin(disc_normal, disc_origin, ray_origin, ray_dir) ==
    LET i == intersect_plane(disc_normal, disc_origin, ray_origin, ray_dir)
        p == Add(ray_origin, Scale(ray_dir, i.t))
    IN  [t |-> i.t, hit |-> i.hit,
         dist_sq |-> IF i.hit THEN LengthSq(Sub(p, disc_origin)) ELSE 0]

\* dist <= bound, for a distance ray_to_plane_origin returned and bound >= 0.
DistLe(r, bound) == r.hit /\ r.dist_sq <= bound * bound

\* (dist - radius).abs() <= bound, likewise.
AbsDiffLe(r, radius, bound) ==
    /\ r.hit
    /\ r.dist_sq <= (radius + bound) * (radius + bound)
    /\ radius - bound <= 0 \/ r.dist_sq >= (radius - bound) * (radius - bound)

\* A 3x3 rotation and a translation: what the model keeps of a DMat4.
Rotate(q, v) ==
    CASE q = "id" -> v
      [] q = "rz90" -> <<-v[2], v[1], v[3]>>

Transform(m, p) == Add(Rotate(m.rot, p), m.trans)

\* Projection to the screen, None for a point that is not in front of the
\* camera.  The model's camera is orthographic: it looks along the unit
\* vector view.axis from view.cam_dist behind the world origin and maps one
\* world unit to view.zoom screen units.
world_to_screen(view, mvp, p) ==
    LET w == Transform(mvp, p)
        up == Cross(view.right, view.axis)
    IN  IF Dot(w, view.axis) + view.cam_dist <= 0 THEN None
        ELSE Some(<<Dot(w, view.right) * view.zoom, Dot(w, up) * view.zoom>>)

\* screen_start.distance(screen_end) < d, on the squares.
ScreenDistLt(p, q, d) ==
    (p[1] - q[1]) * (p[1] - q[1]) + (p[2] - q[2]) * (p[2] - q[2]) < d * d

(***************************************************************************)
(* The handle: SubGizmo (src/src/subgizmo.rs).                              *)
(***************************************************************************)
Kinds == {"TranslationVector", "TranslationPlane", "RotationAxis"}

AxisOf(direction) ==
    CASE direction = "X" -> <<1, 0, 0>>
      [] direction = "Y" -> <<0, 1, 0>>
      [] direction = "Z" -> <<0, 0, 1>>

\* config.view_forward(), in thousandths.
view_forward(config) == config.view.forward

local_normal(sg) ==
    IF sg.direction = "Screen" THEN MulFrac(Neg(view_forward(sg.config)), 1, 1000)
    ELSE AxisOf(sg.direction)

normal(sg) ==
    IF sg.config.local_space /\ sg.direction # "Screen"
    THEN Rotate(sg.config.rotation, local_normal(sg))
    ELSE local_normal(sg)

(***************************************************************************)
(* Translation along a vector (src/src/translation.rs).                    *)
(***************************************************************************)
\* 1e-5, the length below which a delta is not snapped: one model unit.
SnapEps == 1

\* The length of the pseudo-infinite ray segment: 1e14 in the source, here a
\* length beyond every coordinate of the model.
ray_length == 100

DefaultTranslationState ==
    [start_point |-> ZERO, last_point |-> ZERO, current_delta |-> ZERO]

translation_transform(sg) ==
    [rot |-> IF sg.config.local_space THEN sg.config.rotation ELSE "id",
     trans |-> sg.config.translation]

\* The visibility test left out: the handle counts as visible from anywhere.
translation_always_visible(sg) == TRUE

translation_is_visible(sg) ==
    LET direction == local_normal(sg)
        width == sg.config.scale_factor * sg.config.stroke_width
        arrow_length == (width * 24) \div 10
        length == sg.config.scale_factor * sg.config.gizmo_size - arrow_length
        start == Scale(direction, width)
        end == Scale(direction, length)
        screen_start == world_to_screen(sg.config.view, translation_transform(sg), start)
        screen_end == world_to_screen(sg.config.view, translation_transform(sg), end)
    IN  ~(/\ screen_start # None
          /\ screen_end # None
          /\ ScreenDistLt(Unwrap(screen_start), Unwrap(screen_end), 5))

\* The nearest point on the line that points in the handle's direction.
point_on_axis(sg, ray) ==
    LET origin == sg.config.translation
        direction == normal(sg)
        t == ray_to_ray(ray.origin, ray.direction, origin, direction)
    IN  Add(origin, Scale(direction, t[2]))

\* snap_translation_vector leaving every delta shorter than the snap distance
\* as it is.
snap_translation_vector_above_step(sg, new_delta) ==
    LET delta_length == Length(new_delta)
    IN  IF delta_length > sg.config.snap_distance
        THEN MulFrac(new_delta,
                     round_to_interval(delta_length, sg.config.snap_distance),
                     delta_length)
        ELSE new_delta

snap_translation_vector(sg, new_delta) ==
    LET delta_length == Length(new_delta)
    IN  IF delta_length > SnapEps
        THEN MulFrac(new_delta,
                     round_to_interval(delta_length, sg.config.snap_distance),
                     delta_length)
        ELSE new_delta

\* pick_translation seeding the points and keeping the old current_delta.
pick_translation_keeping_delta(sg, state, ray) ==
    IF ~translation_is_visible(sg) THEN [state |-> state, ret |-> None]
    ELSE
    LET origin == sg.config.translation
        dir == normal(sg)
        length == sg.config.scale_factor * sg.config.gizmo_size
        st == segment_to_segment(ray.origin,
                                 Add(ray.origin, Scale(ray.direction, ray_length)),
                                 origin,
                                 Add(origin, Scale(dir, length)))
        ray_point == Add(ray.origin, MulFrac(Scale(ray.direction, ray_length), st.sn, st.sd))
        subgizmo_point == Add(origin, MulFrac(Scale(dir, length), st.tn, st.td))
        dist_sq == LengthSq(Sub(ray_point, subgizmo_point))
    IN  [state |-> [start_point |-> subgizmo_point,
                    last_point |-> subgizmo_point,
                    current_delta |-> state.current_delta],
         ret |-> IF dist_sq <= sg.config.focus_distance * sg.config.focus_distance
                 THEN Some(Length(Sub(ray_point, ray.origin)))
                 ELSE None]

\* pick_translation: the state it leaves and the distance it returns.
pick_translation(sg, state, ray) ==
    IF ~translation_is_visible(sg) THEN [state |-> state, ret |-> None]
    ELSE
    LET origin == sg.config.translation
        dir == normal(sg)
        length == sg.config.scale_factor * sg.config.gizmo_size
        st == segment_to_segment(ray.origin,
                                 Add(ray.origin, Scale(ray.direction, ray_length)),
                                 origin,
                                 Add(origin, Scale(dir, length)))
        ray_point == Add(ray.origin, MulFrac(Scale(ray.direction, ray_length), st.sn, st.sd))
        subgizmo_point == Add(origin, MulFrac(Scale(dir, length), st.tn, st.td))
        dist_sq == LengthSq(Sub(ray_point, subgizmo_point))
    IN  [state |-> [start_point |-> subgizmo_point,
                    last_point |-> subgizmo_point,
                    current_delta |-> ZERO],
         ret |-> IF dist_sq <= sg.config.focus_distance * sg.config.focus_distance
                 THEN Some(Length(Sub(ray_point, ray.origin)))
                 ELSE None]

\* What draw_translation paints: nothing, or the line and the arrow.
draw_translation(sg) ==
    IF ~translation_is_visible(sg) THEN {}
    ELSE
    LET direction == local_normal(sg)
        width == sg.config.scale_factor * sg.config.stroke_width
        arrow_length == (width * 24) \div 10
        length == sg.config.scale_factor * sg.config.gizmo_size - arrow_length
        start == Scale(direction, width)
        end == Scale(direction, length)
    IN  {[shape |-> "line_segment", points |-> <<start, end>>],
         [shape |-> "arrow",
          points |-> <<end, Add(end, Scale(direction, arrow_length))>>]}

\* update_translation storing the point the ray resolved to as last_point,
\* also when snapping has moved the delta.
update_translation_raw_point(sg, state, ray) ==
    LET point == point_on_axis(sg, ray)
        delta == Sub(point, state.start_point)
        new_delta == IF sg.config.snapping THEN snap_translation_vector(sg, delta)
                     ELSE delta
        new_point == point
        updated == [start_point |-> state.start_point,
                    last_point |-> new_point,
                    current_delta |-> new_delta]
        new_translation == Sub(Add(sg.config.translation, new_point), state.last_point)
    IN  [state |-> updated,
         ret |-> Some([scale |-> sg.config.scale,
                       rotation |-> [base |-> sg.config.rotation, axis |-> ZERO, angle |-> 0],
                       translation |-> new_translation,
                       mode |-> "Translate",
                       value |-> state.current_delta])]

\* update_translation returning the translation moved by the whole delta since
\* the start of the drag instead of by this frame's movement.
update_translation_from_start(sg, state, ray) ==
    LET point == point_on_axis(sg, ray)
        delta == Sub(point, state.start_point)
        new_delta == IF sg.config.snapping THEN snap_translation_vector(sg, delta)
                     ELSE delta
        new_point == IF sg.config.snapping THEN Add(state.start_point, new_delta)
                     ELSE point
        updated == [start_point |-> state.start_point,
                    last_point |-> new_point,
                    current_delta |-> new_delta]
        new_translation == Sub(Add(sg.config.translation, new_point), state.start_point)
    IN  [state |-> updated,
         ret |-> Some([scale |-> sg.config.scale,
                       rotation |-> [base |-> sg.config.rotation, axis |-> ZERO, angle |-> 0],
                       translation |-> new_translation,
                       mode |-> "Translate",
                       value |-> state.current_delta])]

\* update_translation: the state it leaves and the result it returns.
update_translation(sg, state, ray) ==
    LET point == point_on_axis(sg, ray)
        delta == Sub(point, state.start_point)
        new_delta == IF sg.config.snapping THEN snap_translation_vector(sg, delta)
                     ELSE delta
        new_point == IF sg.config.snapping THEN Add(state.start_point, new_delta)
                     ELSE point
        updated == [start_point |-> state.start_point,
                    last_point |-> new_point,
                    current_delta |-> new_delta]
        new_translation == Sub(Add(sg.config.translation, new_point), state.last_point)
    IN  [state |-> updated,
         ret |-> Some([scale |-> sg.config.scale,
                       rotation |-> [base |-> sg.config.rotation, axis |-> ZERO, angle |-> 0],
                       translation |-> new_translation,
                       mode |-> "Translate",
                       value |-> state.current_delta])]

(***************************************************************************)
(* Translation along a plane (src/src/translation.rs).                     *)
(***************************************************************************)
translation_plane_binormal(direction) ==
    CASE direction = "X" -> <<0, 1, 0>>
      [] direction = "Y" -> <<0, 0, 1>>
      [] direction = "Z" -> <<1, 0, 0>>
      [] direction = "Screen" -> <<1, 0, 0>>

translation_plane_tangent(direction) ==
    CASE direction = "X" -> <<0, 0, 1>>
      [] direction = "Y" -> <<1, 0, 0>>
      [] direction = "Z" -> <<0, 1, 0>>
      [] direction = "Screen" -> <<1, 0, 0>>

translation_plane_size(sg) ==
    sg.config.scale_factor * (sg.config.gizmo_size \div 10 + sg.config.stroke_width * 2)

translation_plane_local_origin(sg) ==
    LET offset == (sg.config.scale_factor * sg.config.gizmo_size * 4) \div 10
        a == translation_plane_binormal(sg.direction)
        b == translation_plane_tangent(sg.direction)
    IN  Scale(Add(a, b), offset)

translation_plane_global_origin(sg) ==
    LET origin == translation_plane_local_origin(sg)
    IN  Add(IF sg.config.local_space THEN Rotate(sg.config.rotation, origin) ELSE origin,
            sg.config.translation)

translation_plane_is_visible(sg) ==
    LET origin == translation_plane_global_origin(sg)
        scale == translation_plane_size(sg) \div 2
        a == Scale(translation_plane_binormal(sg.direction), scale)
        b == Scale(translation_plane_tangent(sg.direction), scale)
        Screen(p) == world_to_screen(sg.config.view, translation_transform(sg), p)
        Near(s, e) == s # None /\ e # None /\ ScreenDistLt(Unwrap(s), Unwrap(e), 5)
    IN  /\ ~Near(Screen(Sub(origin, a)), Screen(Add(origin, a)))
        /\ ~Near(Screen(Sub(origin, b)), Screen(Add(origin, b)))

point_on_plane(plane_normal, plane_origin, ray) ==
    LET i == intersect_plane(plane_normal, plane_origin, ray.origin, ray.direction)
    IN  IF ~i.hit THEN None
        ELSE Some(Add(ray.origin, Scale(ray.direction, i.t)))

\* pick_translation_plane: the state it leaves and the ray parameter it returns.
pick_translation_plane(sg, state, ray) ==
    IF ~translation_plane_is_visible(sg) THEN [state |-> state, ret |-> None]
    ELSE
    LET origin == translation_plane_global_origin(sg)
        r == ray_to_plane_origin(normal(sg), origin, ray.origin, ray.direction)
        ray_point == Add(ray.origin, Scale(ray.direction, r.t))
    IN  [state |-> [start_point |-> ray_point,
                    last_point |-> ray_point,
                    current_delta |-> ZERO],
         ret |-> IF DistLe(r, translation_plane_size(sg)) THEN Some(r.t) ELSE None]

\* What draw_translation_plane paints: nothing, or the square patch.
draw_translation_plane(sg) ==
    IF ~translation_plane_is_visible(sg) THEN {}
    ELSE
    LET scale == translation_plane_size(sg) \div 2
        a == Scale(translation_plane_binormal(sg.direction), scale)
        b == Scale(translation_plane_tangent(sg.direction), scale)
        origin == translation_plane_local_origin(sg)
    IN  {[shape |-> "polygon",
          points |-> <<Sub(Sub(origin, b), a), Sub(Add(origin, b), a),
                       Add(Add(origin, b), a), Add(Sub(origin, b), a)>>]}

snap_translation_plane(sg, new_delta) ==
    LET binormal == IF sg.config.local_space
                    THEN Rotate(sg.config.rotation, translation_plane_binormal(sg.direction))
                    ELSE translation_plane_binormal(sg.direction)
        tangent == IF sg.config.local_space
                   THEN Rotate(sg.config.rotation, translation_plane_tangent(sg.direction))
                   ELSE translation_plane_tangent(sg.direction)
        cb == Cross(new_delta, Neg(binormal))
        ct == Cross(new_delta, tangent)
        lb == Length(cb)
        lt == Length(ct)
        n == normal(sg)
    IN  IF lb > SnapEps /\ lt > SnapEps
        THEN Add(Scale(binormal,
                       round_to_interval(lt, sg.config.snap_distance)
                           * Dot(MulFrac(ct, 1, lt), n)),
                 Scale(tangent,
                       round_to_interval(lb, sg.config.snap_distance)
                           * Dot(MulFrac(cb, 1, lb), n)))
        ELSE new_delta

\* update_translation_plane: the state it leaves and the result it returns.
update_translation_plane(sg, state, ray) ==
    LET hit == point_on_plane(normal(sg), translation_plane_global_origin(sg), ray)
    IN  IF hit = None THEN [state |-> state, ret |-> None]
        ELSE
        LET point == Unwrap(hit)
            delta == Sub(point, state.start_point)
            new_delta == IF sg.config.snapping THEN snap_translation_plane(sg, delta)
                         ELSE delta
            new_point == IF sg.config.snapping THEN Add(state.start_point, new_delta)
                         ELSE point
            updated == [start_point |-> state.start_point,
                        last_point |-> new_point,
                        current_delta |-> new_delta]
            new_translation == Sub(Add(sg.config.translation, new_point), state.last_point)
        IN  [state |-> updated,
             ret |-> Some([scale |-> sg.config.scale,
                           rotation |-> [base |-> sg.config.rotation,
                                         axis |-> ZERO, angle |-> 0],
                           translation |-> new_translation,
                           mode |-> "Translate",
                           value |-> state.current_delta])]

(***************************************************************************)
(* Rotation around an axis (src/src/rotation.rs).  Angles are in degrees.  *)
(***************************************************************************)
PI == 180

TAU == 2 * PI

FRAC_PI_2 == PI \div 2

\* An f64 that may be NaN (the angle computed from a vector that cannot be
\* normalized): NaN, or Num(x).
NaN == <<>>

Num(x) == <<x>>

\* f64::atan2(y, x) in degrees: exact on the eight compass directions, and to
\* the nearest degree on the two directions next to the negative x axis that
\* the model's pointer positions add to them.  atan2(0, 0) is 0.
Atan2(y, x) ==
    CASE y = 0 /\ x >= 0 -> 0
      [] y = 0 /\ x < 0 -> 180
      [] x = 0 /\ y > 0 -> 90
      [] x = 0 /\ y < 0 -> -90
      [] x > 0 /\ y = x -> 45
      [] x > 0 /\ y = -x -> -45
      [] x < 0 /\ y = -x -> 135
      [] x < 0 /\ y = x -> -135
      [] x < 0 /\ x = -57 * y /\ y > 0 -> 179
      [] x < 0 /\ x = 57 * y /\ y < 0 -> -179

\* config.mvp: the model matrix takes the local origin to config.translation.
config_mvp(sg) == [rot |-> sg.config.rotation, trans |-> sg.config.translation]

DefaultRotationState ==
    [start_axis_angle |-> Num(0), start_rotation_angle |-> 0,
     last_rotation_angle |-> 0, current_delta |-> 0]

tangent(sg) ==
    LET t == CASE sg.direction = "X" -> <<0, 0, 1>>
               [] sg.direction = "Y" -> <<0, 0, 1>>
               [] sg.direction = "Z" -> <<0, -1, 0>>
               [] sg.direction = "Screen" -> Neg(sg.config.view.right)
    IN  IF sg.config.local_space /\ sg.direction # "Screen"
        THEN Rotate(sg.config.rotation, t)
        ELSE t

arc_radius(sg) ==
    sg.config.scale_factor
        * (IF sg.direction = "Screen"
           THEN sg.config.gizmo_size + sg.config.stroke_width + 5
           ELSE sg.config.gizmo_size)

\* arc_angle without the upper clamp of the interpolation factor.
arc_angle_of_unclamped(dot) ==
    LET min_dot == 990
        max_dot == 995
        Max(a, b) == IF a > b THEN a ELSE b
    IN  (Max(0, dot - min_dot) * FRAC_PI_2) \div (max_dot - min_dot) + FRAC_PI_2

\* The arc's half span for |normal . view_forward| = dot thousandths.
arc_angle_of(dot) ==
    LET min_dot == 990
        max_dot == 995
        Max(a, b) == IF a > b THEN a ELSE b
        Min(a, b) == IF a < b THEN a ELSE b
    IN  (Min(max_dot - min_dot, Max(0, dot - min_dot)) * FRAC_PI_2)
            \div (max_dot - min_dot) + FRAC_PI_2

arc_angle(sg) == arc_angle_of(Abs(Dot(normal(sg), view_forward(sg.config))))

\* rotation_angle without the test for a pointer on the projected origin: the
\* direction that cannot be normalized is taken as the angle atan2(0, 0).
rotation_angle_unchecked(sg, ui) ==
    LET gizmo_pos == world_to_screen(sg.config.view, config_mvp(sg), ZERO)
    IN  IF ui.hover_pos = None \/ gizmo_pos = None THEN None
        ELSE
        LET dx == Unwrap(ui.hover_pos)[1] - Unwrap(gizmo_pos)[1]
            dy == Unwrap(ui.hover_pos)[2] - Unwrap(gizmo_pos)[2]
            angle == Atan2(dy, dx)
        IN  IF Dot(view_forward(sg.config), normal(sg)) < 0 THEN Some(-angle)
            ELSE Some(angle)

\* The angle of the pointer around the projected gizmo origin, None when there
\* is no pointer, no projection, or no direction from the one to the other.
rotation_angle(sg, ui) ==
    LET gizmo_pos == world_to_screen(sg.config.view, config_mvp(sg), ZERO)
    IN  IF ui.hover_pos = None \/ gizmo_pos = None THEN None
        ELSE
        LET dx == Unwrap(ui.hover_pos)[1] - Unwrap(gizmo_pos)[1]
            dy == Unwrap(ui.hover_pos)[2] - Unwrap(gizmo_pos)[2]
            angle == Atan2(dy, dx)
        IN  IF dx = 0 /\ dy = 0 THEN None
            ELSE IF Dot(view_forward(sg.config), normal(sg)) < 0 THEN Some(-angle)
            ELSE Some(angle)

\* The difference of two angles taken as it is, never wrapped.
smallest_angle_unwrapped(angle_delta) == angle_delta

\* The smallest angle for a difference of two angles, e.g. -10 instead of 350.
smallest_angle(angle_delta) ==
    IF angle_delta > PI THEN angle_delta - TAU
    ELSE IF angle_delta < -PI THEN angle_delta + TAU
    ELSE angle_delta

\* pick_rotation: the state it leaves and the ray parameter it returns.
pick_rotation(sg, state, ui, ray) ==
    LET radius == arc_radius(sg)
        origin == sg.config.translation
        n == normal(sg)
        tan == tangent(sg)
        r == ray_to_plane_origin(n, origin, ray.origin, ray.direction)
        hit_pos == Add(ray.origin, Scale(ray.direction, r.t))
        \* a positive multiple of (nearest_circle_pos - origin).normalize()
        offset == Sub(hit_pos, origin)
        forward == IF sg.config.left_handed THEN Neg(view_forward(sg.config))
                   ELSE view_forward(sg.config)
        angle == IF ~r.hit \/ offset = ZERO THEN NaN
                 ELSE IF sg.direction = "Screen"
                 THEN Num(Atan2(Dot(Cross(tan, n), offset), Dot(tan, offset)))
                 ELSE Num(Atan2(Dot(Cross(offset, forward), n), Dot(offset, forward)))
        pointer == rotation_angle(sg, ui)
        rot_angle == IF pointer = None THEN 0 ELSE Unwrap(pointer)
    IN  [state |-> [start_axis_angle |-> angle,
                    start_rotation_angle |-> rot_angle,
                    last_rotation_angle |-> rot_angle,
                    current_delta |-> 0],
         ret |-> IF /\ AbsDiffLe(r, radius, sg.config.focus_distance)
                    /\ angle # NaN
                    /\ Abs(Unwrap(angle)) < arc_angle(sg)
                 THEN Some(r.t)
                 ELSE None]

\* What draw_rotation paints.
draw_rotation(sg, state) ==
    LET radius == arc_radius(sg)
    IN  IF ~sg.active
        THEN {[shape |-> "arc", radius |-> radius,
               from |-> FRAC_PI_2 - arc_angle(sg), to |-> FRAC_PI_2 + arc_angle(sg)]}
        ELSE {[shape |-> "polyline", radius |-> radius,
               from |-> state.start_axis_angle, by |-> state.current_delta],
              [shape |-> "circle", radius |-> radius]}
             \cup (IF sg.config.snapping
                   THEN {[shape |-> "ticks", radius |-> radius,
                          count |-> TAU \div sg.config.snap_angle + 1]}
                   ELSE {})

\* update_rotation keeping the accumulated delta within half a turn.
update_rotation_wrapped_sum(sg, state, ui) ==
    LET pointer == rotation_angle(sg, ui)
    IN  IF pointer = None THEN [state |-> state, ret |-> None]
        ELSE
        LET rot_angle ==
                IF sg.config.snapping
                THEN round_to_interval(Unwrap(pointer) - state.start_rotation_angle,
                                       sg.config.snap_angle)
                         + state.start_rotation_angle
                ELSE Unwrap(pointer)
            angle_delta == smallest_angle(rot_angle - state.last_rotation_angle)
            updated == [start_axis_angle |-> state.start_axis_angle,
                        start_rotation_angle |-> state.start_rotation_angle,
                        last_rotation_angle |-> rot_angle,
                        current_delta |-> smallest_angle(state.current_delta + angle_delta)]
        IN  [state |-> updated,
             ret |-> Some([scale |-> sg.config.scale,
                           rotation |-> [base |-> sg.config.rotation,
                                         axis |-> normal(sg), angle |-> -angle_delta],
                           translation |-> sg.config.translation,
                           mode |-> "Rotate",
                           value |-> Scale(normal(sg), state.current_delta)])]

\* update_rotation: the state it leaves and the result it returns.
update_rotation(sg, state, ui) ==
    LET pointer == rotation_angle(sg, ui)
    IN  IF pointer = None THEN [state |-> state, ret |-> None]
        ELSE
        LET rot_angle ==
                IF sg.config.snapping
                THEN round_to_interval(Unwrap(pointer) - state.start_rotation_angle,
                                       sg.config.snap_angle)
                         + state.start_rotation_angle
                ELSE Unwrap(pointer)
            angle_delta == smallest_angle(rot_angle - state.last_rotation_angle)
            updated == [start_axis_angle |-> state.start_axis_angle,
                        start_rotation_angle |-> state.start_rotation_angle,
                        last_rotation_angle |-> rot_angle,
                        current_delta |-> state.current_delta + angle_delta]
        IN  [state |-> updated,
             ret |-> Some([scale |-> sg.config.scale,
                           rotation |-> [base |-> sg.config.rotation,
                                         axis |-> normal(sg), angle |-> -angle_delta],
                           translation |-> sg.config.translation,
                           mode |-> "Rotate",
                           value |-> Scale(normal(sg), state.current_delta)])]

(***************************************************************************)
(* Inputs: the handles, cameras, rays and pointer positions of the model.  *)
(***************************************************************************)
\* No coordinate of config.translation leaves -MaxCoord .. MaxCoord.
MaxCoord == 3

\* The accumulated rotation stays within -MaxAngle .. MaxAngle degrees.
MaxAngle == 270

\* Cameras: from the top (along -z) at two zooms and from close by, from the
\* side (along -x), from below (along +z), and from the top with the world
\* origin behind the camera.
TopView(zoom, cam_dist) ==
    [forward |-> <<0, 0, -1000>>, axis |-> <<0, 0, -1>>, right |-> <<1, 0, 0>>,
     zoom |-> zoom, cam_dist |-> cam_dist]

SideView ==
    [forward |-> <<-1000, 0, 0>>, axis |-> <<-1, 0, 0>>, right |-> <<0, 1, 0>>,
     zoom |-> 2, cam_dist |-> 100]

BottomView ==
    [forward |-> <<0, 0, 1000>>, axis |-> <<0, 0, 1>>, right |-> <<1, 0, 0>>,
     zoom |-> 2, cam_dist |-> 100]

Views == {TopView(1, 100), TopView(2, 100), TopView(2, 6), SideView}

RotationViews == {TopView(2, 100), SideView, BottomView, TopView(2, -5)}

\* The handles: kind, direction, the orientation of the object they move, and
\* the camera, which stays where it is.
Handles ==
    {[kind |-> k, direction |-> d, local_space |-> FALSE, rotation |-> "id", view |-> v] :
        k \in {"TranslationVector", "TranslationPlane"}, d \in {"X", "Z"}, v \in Views}
    \cup {[kind |-> k, direction |-> "X", local_space |-> TRUE, rotation |-> "rz90",
           view |-> v] :
        k \in {"TranslationVector", "TranslationPlane"}, v \in Views}
    \cup {[kind |-> "RotationAxis", direction |-> "Z", local_space |-> FALSE,
           rotation |-> "id", view |-> v] : v \in RotationViews}
    \cup {[kind |-> "RotationAxis", direction |-> "Screen", local_space |-> FALSE,
           rotation |-> "id", view |-> TopView(2, 100)]}

SnapConfigs ==
    {[snapping |-> FALSE, snap_distance |-> 2, snap_angle |-> 90],
     [snapping |-> TRUE, snap_distance |-> 2, snap_angle |-> 90],
     [snapping |-> TRUE, snap_distance |-> 3, snap_angle |-> 100]}

\* The handle as it is built for one frame.
SubGizmo(h, trans, snap, left_handed, active) ==
    [kind |-> h.kind, direction |-> h.direction, active |-> active,
     config |-> [translation |-> trans, rotation |-> h.rotation,
                 local_space |-> h.local_space, scale |-> <<1, 1, 1>>,
                 view |-> h.view, left_handed |-> left_handed,
                 snapping |-> snap.snapping, snap_distance |-> snap.snap_distance,
                 snap_angle |-> snap.snap_angle,
                 focus_distance |-> 2, scale_factor |-> 1,
                 gizmo_size |-> 20, stroke_width |-> 5]]

\* A ray given in the handle's own frame: n is the handle's normal, b and t
\* span the plane across it.  A crossing ray runs against t (vector handle) or
\* against n (plane and rotation handles) and passes the point u, v; the other
\* rays run along the handle, parallel to its axis or inside its plane.
RayOf(sg, rs) ==
    LET n == normal(sg)
        b0 == IF sg.direction = "Screen" THEN sg.config.view.right
              ELSE translation_plane_binormal(sg.direction)
        t0 == IF sg.direction = "Screen" THEN Cross(sg.config.view.right, sg.config.view.axis)
              ELSE translation_plane_tangent(sg.direction)
        turn == sg.config.local_space /\ sg.direction # "Screen"
        b == IF turn THEN Rotate(sg.config.rotation, b0) ELSE b0
        t == IF turn THEN Rotate(sg.config.rotation, t0) ELSE t0
    IN  IF sg.kind = "TranslationVector"
        THEN IF rs.crossing
             THEN [origin |-> Add(Add(Scale(n, rs.u), Scale(b, rs.v)), Scale(t, 50)),
                   direction |-> Neg(t)]
             ELSE [origin |-> Add(Scale(n, rs.u), Scale(b, rs.v)), direction |-> n]
        ELSE IF rs.crossing
             THEN [origin |-> Add(Add(Scale(b, rs.u), Scale(t, rs.v)), Scale(n, 50)),
                   direction |-> Neg(n)]
             ELSE [origin |-> Add(Scale(b, rs.u), Scale(t, rs.v)), direction |-> t]

\* The rays a pick is tried with.
PickRays(kind) ==
    CASE kind = "TranslationVector" ->
            {[crossing |-> TRUE, u |-> -2, v |-> 0], [crossing |-> TRUE, u |-> 1, v |-> 0],
             [crossing |-> TRUE, u |-> 3, v |-> 2], [crossing |-> TRUE, u |-> 3, v |-> 3],
             [crossing |-> TRUE, u |-> 25, v |-> 0], [crossing |-> FALSE, u |-> 0, v |-> 1]}
      [] kind = "TranslationPlane" ->
            {[crossing |-> TRUE, u |-> 8, v |-> v] : v \in {8, 14, 15, 20, 21}}
            \cup {[crossing |-> FALSE, u |-> 8, v |-> 8]}
      [] kind = "RotationAxis" ->
            {[crossing |-> TRUE, u |-> 20, v |-> 0], [crossing |-> TRUE, u |-> 0, v |-> 20],
             [crossing |-> TRUE, u |-> -20, v |-> 0],
             [crossing |-> TRUE, u |-> 0, v |-> 0], [crossing |-> TRUE, u |-> -30, v |-> 0],
             [crossing |-> FALSE, u |-> 20, v |-> 0]}

\* The rays of the frames of a drag.
UpdateRays(kind) ==
    CASE kind = "TranslationVector" ->
            {[crossing |-> TRUE, u |-> u, v |-> 0] : u \in {0, 1, 2, 4}}
            \cup {[crossing |-> FALSE, u |-> 0, v |-> 1]}
      [] kind = "TranslationPlane" ->
            {[crossing |-> TRUE, u |-> 8, v |-> 8], [crossing |-> TRUE, u |-> 9, v |-> 8],
             [crossing |-> TRUE, u |-> 11, v |-> 8], [crossing |-> TRUE, u |-> 11, v |-> 10],
             [crossing |-> FALSE, u |-> 8, v |-> 8]}

\* ui.input(|i| i.pointer.hover_pos()): no pointer, or its screen position.
HoverPositions ==
    {None} \cup {Some(p) : p \in {<<0, 0>>, <<1, 0>>, <<0, 1>>, <<-1, 0>>, <<0, -1>>}}

\* The pointer positions at the start of a drag.
PickHoverPositions == {None, Some(<<1, 0>>), Some(<<0, 1>>)}

InBox(v) == \A i \in 1..3 : Abs(v[i]) <= MaxCoord

\* The history of a drag: whether a pick hit the handle, config.translation at
\* that pick, the sum of the angle deltas the updates since then returned,
\* whether all of them ran without snapping, and the snap_angle all of them
\* snapped to (0 before the first update, -1 once they differ in it).
NoDrag ==
    [picked |-> FALSE, orig_translation |-> ZERO, sum |-> 0, unsnapped |-> TRUE,
     snap_angle |-> 0]

\* The dot products arc_angle is evaluated at, in thousandths.
ArcDots == {0, 500, 989, 990, 991, 992, 993, 994, 995, 996, 1000}

\* A rotation handle around z under a camera whose forward vector makes the
\* dot product d with the handle's normal.
ArcGizmo(d) ==
    SubGizmo([kind |-> "RotationAxis", direction |-> "Z", local_space |-> FALSE,
              rotation |-> "id",
              view |-> [forward |-> <<0, 0, d>>, axis |-> <<0, 0, 1>>,
                        right |-> <<1, 0, 0>>, zoom |-> 2, cam_dist |-> 100]],
             ZERO, [snapping |-> FALSE, snap_distance |-> 2, snap_angle |-> 90],
             FALSE, FALSE)

\* An evaluation of arc_angle after the evaluation `before`.
ArcEval(d, before) ==
    [dot |-> Abs(d), angle |-> arc_angle(ArcGizmo(d)),
     prev_dot |-> before.dot, prev_angle |-> before.angle]

NoArc == [dot |-> 0, angle |-> FRAC_PI_2, prev_dot |-> 0, prev_angle |-> FRAC_PI_2]

NoSnap == CHOOSE c \in SnapConfigs : ~c.snapping

\* The record of a call: the operation, the inputs that varied (the snapping,
\* the handedness, the ray of a pick, the pointer), the point an update
\* resolved the ray to, and the result.
Call(op, snap, ray, ui, point, ret, drawn) ==
    [op |-> op, snap |-> snap, left_handed |-> FALSE, ray |-> ray,
     ui |-> ui, point |-> point, ret |-> ret, drawn |-> drawn]

Init ==
    /\ handle \in Handles
    /\ host \in [writes_back : BOOLEAN]
    /\ handle.kind = "RotationAxis" => host.writes_back
    /\ translation = ZERO
    /\ tstate = DefaultTranslationState
    /\ rstate = DefaultRotationState
    /\ call = Call("new", NoSnap, None, None, None, None, {})
    /\ drag = NoDrag
    /\ arc = NoArc

(***************************************************************************)
(* The calls on the handle: SubGizmo::pick, ::update and ::draw dispatch on *)
(* the handle's kind.                                                      *)
(***************************************************************************)
PickTranslation ==
    /\ handle.kind = "TranslationVector"
    /\ \E rs \in PickRays(handle.kind) :
        LET sg == SubGizmo(handle, translation, NoSnap, FALSE, FALSE)
            ray == RayOf(sg, rs)
            out == pick_translation(sg, tstate, ray)
        IN  /\ tstate' = out.state
            /\ call' = Call("pick_translation", NoSnap, ray, None, None, out.ret, {})
            /\ drag' = IF translation_is_visible(sg)
                       THEN [NoDrag EXCEPT !.orig_translation = translation,
                                           !.picked = out.ret # None]
                       ELSE drag
    /\ UNCHANGED <<handle, host, translation, rstate, arc>>

\* A host that writes back puts the returned translation into the
\* configuration the next frame reads.
UpdateTranslation ==
    /\ handle.kind = "TranslationVector"
    /\ \E snap \in SnapConfigs, rs \in UpdateRays(handle.kind) :
        LET sg == SubGizmo(handle, translation, snap, FALSE, TRUE)
            ray == RayOf(sg, rs)
            out == update_translation(sg, tstate, ray)
            new_translation == IF host.writes_back THEN Unwrap(out.ret).translation
                               ELSE translation
        IN  /\ InBox(new_translation)
            /\ tstate' = out.state
            /\ translation' = new_translation
            /\ call' = Call("update_translation", snap, None, None,
                            Some(point_on_axis(sg, ray)), out.ret, {})
    /\ UNCHANGED <<handle, host, rstate, drag, arc>>

DrawTranslation ==
    /\ handle.kind = "TranslationVector"
    /\ \E active \in BOOLEAN :
        LET sg == SubGizmo(handle, translation, NoSnap, FALSE, active)
        IN  call' = Call("draw_translation", NoSnap, None, None, None, None,
                         draw_translation(sg))
    /\ UNCHANGED <<handle, host, translation, tstate, rstate, drag, arc>>

PickTranslationPlane ==
    /\ handle.kind = "TranslationPlane"
    /\ \E rs \in PickRays(handle.kind) :
        LET sg == SubGizmo(handle, translation, NoSnap, FALSE, FALSE)
            ray == RayOf(sg, rs)
            out == pick_translation_plane(sg, tstate, ray)
        IN  /\ tstate' = out.state
            /\ call' = Call("pick_translation_plane", NoSnap, ray, None, None, out.ret, {})
            /\ drag' = IF translation_plane_is_visible(sg)
                       THEN [NoDrag EXCEPT !.orig_translation = translation,
                                           !.picked = out.ret # None]
                       ELSE drag
    /\ UNCHANGED <<handle, host, translation, rstate, arc>>

UpdateTranslationPlane ==
    /\ handle.kind = "TranslationPlane"
    /\ \E snap \in SnapConfigs, rs \in UpdateRays(handle.kind) :
        LET sg == SubGizmo(handle, translation, snap, FALSE, TRUE)
            ray == RayOf(sg, rs)
            out == update_translation_plane(sg, tstate, ray)
            new_translation == IF host.writes_back /\ out.ret # None
                               THEN Unwrap(out.ret).translation
                               ELSE translation
        IN  /\ InBox(new_translation)
            /\ tstate' = out.state
            /\ translation' = new_translation
            /\ call' = Call("update_translation_plane", snap, ray, None,
                            point_on_plane(normal(sg), translation_plane_global_origin(sg), ray),
                            out.ret, {})
    /\ UNCHANGED <<handle, host, rstate, drag, arc>>

DrawTranslationPlane ==
    /\ handle.kind = "TranslationPlane"
    /\ \E active \in BOOLEAN :
        LET sg == SubGizmo(handle, translation, NoSnap, FALSE, active)
        IN  call' = Call("draw_translation_plane", NoSnap, None, None, None, None,
                         draw_translation_plane(sg))
    /\ UNCHANGED <<handle, host, translation, tstate, rstate, drag, arc>>

PickRotation ==
    /\ handle.kind = "RotationAxis"
    /\ \E rs \in PickRays(handle.kind), hover \in PickHoverPositions, left_handed \in BOOLEAN :
        LET sg == SubGizmo(handle, translation, NoSnap, left_handed, FALSE)
            ray == RayOf(sg, rs)
            ui == [hover_pos |-> hover]
            out == pick_rotation(sg, rstate, ui, ray)
        IN  /\ rstate' = out.state
            /\ call' = [Call("pick_rotation", NoSnap, ray, ui, None, out.ret, {})
                            EXCEPT !.left_handed = left_handed]
            /\ drag' = [NoDrag EXCEPT !.picked = out.ret # None]
    /\ UNCHANGED <<handle, host, translation, tstate, arc>>

\* The rotation a host writes back turns the object about the handle's normal,
\* which leaves the normal, all that update_rotation reads of it, as it was.
UpdateRotation ==
    /\ handle.kind = "RotationAxis"
    /\ \E snap \in SnapConfigs, hover \in HoverPositions :
        LET sg == SubGizmo(handle, translation, snap, FALSE, TRUE)
            ui == [hover_pos |-> hover]
            out == update_rotation(sg, rstate, ui)
        IN  /\ Abs(out.state.current_delta) <= MaxAngle
            /\ rstate' = out.state
            /\ call' = Call("update_rotation", snap, None, ui, None, out.ret, {})
            /\ drag' = IF out.ret = None THEN drag
                       ELSE [drag EXCEPT !.sum = @ - Unwrap(out.ret).rotation.angle,
                                         !.unsnapped = @ /\ ~snap.snapping,
                                         !.snap_angle =
                                             IF snap.snapping /\ @ \in {0, snap.snap_angle}
                                             THEN snap.snap_angle
                                             ELSE -1]
    /\ UNCHANGED <<handle, host, translation, tstate, arc>>

DrawRotation ==
    /\ handle.kind = "RotationAxis"
    /\ \E snap \in SnapConfigs, active \in BOOLEAN :
        LET sg == SubGizmo(handle, translation, snap, FALSE, active)
        IN  call' = Call("draw_rotation", snap, None, None, None, None,
                         draw_rotation(sg, rstate))
    /\ UNCHANGED <<handle, host, translation, tstate, rstate, drag, arc>>

Next ==
    \/ PickTranslation
    \/ UpdateTranslation
    \/ DrawTranslation
    \/ PickTranslationPlane
    \/ UpdateTranslationPlane
    \/ DrawTranslationPlane
    \/ PickRotation
    \/ UpdateRotation
    \/ DrawRotation

Spec == Init /\ [][Next]_vars

(***************************************************************************)
(* arc_angle on its own: the handle is not touched, the camera turns.      *)
(***************************************************************************)
InitArc ==
    /\ handle = [kind |-> "RotationAxis", direction |-> "Z", local_space |-> FALSE,
                 rotation |-> "id", view |-> BottomView]
    /\ host = [writes_back |-> TRUE]
    /\ translation = ZERO
    /\ tstate = DefaultTranslationState
    /\ rstate = DefaultRotationState
    /\ call = Call("new", NoSnap, None, None, None, None, {})
    /\ drag = NoDrag
    /\ \E d \in ArcDots : arc = ArcEval(d, ArcEval(d, NoArc))

ArcAngle ==
    /\ \E d \in ArcDots, s \in {-1, 1} : arc' = ArcEval(s * d, arc)
    /\ UNCHANGED <<handle, host, translation, tstate, rstate, call, drag>>

NextArc == ArcAngle

SpecArc == InitArc /\ [][NextArc]_vars

(***************************************************************************)
(* Properties.                                                             *)
(***************************************************************************)
\* A step in which update_rotation returned a result.
RotationUpdated == call'.op = "update_rotation" /\ call'.ret # None

\* The angle_delta of the update_rotation call that call_ records: the result
\* turns by -angle_delta.
AngleDelta(call_) == -Unwrap(call_.ret).rotation.angle

InHalfOpenTurn(a) == -PI < a /\ a <= PI

C2_AccumulatedDelta ==
    (handle.kind = "RotationAxis" /\ drag.unsnapped)
        => /\ rstate.current_delta = drag.sum
           /\ (call.op = "update_rotation" /\ call.ret # None)
                => Abs(AngleDelta(call)) <= PI

\* A drag without snapping that has accumulated more than half a turn.
C2_MoreThanHalfTurn ==
    /\ handle.kind = "RotationAxis"
    /\ drag.unsnapped
    /\ call.op = "update_rotation"
    /\ call.ret # None
    /\ Abs(rstate.current_delta) > PI
    /\ rstate.current_delta = drag.sum

\* C3: in a drag of a vector handle (a pick_translation hit, then updates, the
\* host writing each returned translation back, snapping on or off) each
\* update returns config.translation + (new point - previous last_point), and
\* the returned translation is the translation at pick time plus the stored
\* current_delta.
C3_TranslationRoundTrip ==
    [][call'.op = "update_translation"
       => LET result == Unwrap(call'.ret)
          IN  /\ result.translation
                    = Add(translation, Sub(tstate'.last_point, tstate.last_point))
              /\ (host.writes_back /\ drag.picked)
                    => result.translation
                         = Add(drag.orig_translation, tstate'.current_delta)]_vars

\* The drag of the example: the handle along x, the point moved 3 units from
\* the start point, the host following.
C3_MovedThree ==
    /\ call.op = "update_translation"
    /\ host.writes_back
    /\ drag.picked
    /\ tstate.current_delta = <<3, 0, 0>>
    /\ tstate.last_point = Add(tstate.start_point, <<3, 0, 0>>)
    /\ Unwrap(call.ret).translation = Add(drag.orig_translation, <<3, 0, 0>>)
    /\ translation = Unwrap(call.ret).translation

\* C4: the raw value an update returns is the accumulated delta including that
\* call's movement: the current_delta the call stored (translation), the
\* normal scaled by the current_delta the call stored (rotation).
C4_ValueIsStoredDelta ==
    /\ (/\ call.op \in {"update_translation", "update_translation_plane"}
        /\ call.ret # None
        /\ drag.picked)
          => Unwrap(call.ret).value = tstate.current_delta
    /\ (call.op = "update_rotation" /\ call.ret # None /\ drag.picked)
          => Unwrap(call.ret).value
               = Scale(normal(SubGizmo(handle, translation, call.snap, FALSE, TRUE)),
                       rstate.current_delta)

\* The handle as the calls without snapping and handedness see it.
Gizmo == SubGizmo(handle, translation, NoSnap, FALSE, FALSE)

\* The local points p and q project to screen points less than 5 apart.
EdgeOn(sg, p, q) ==
    LET a == world_to_screen(sg.config.view, translation_transform(sg), p)
        b == world_to_screen(sg.config.view, translation_transform(sg), q)
    IN  a # None /\ b # None /\ ScreenDistLt(Unwrap(a), Unwrap(b), 5)

\* The two endpoints of a vector handle's segment are edge-on.
VectorEdgeOn(sg) ==
    LET width == sg.config.scale_factor * sg.config.stroke_width
        length == sg.config.scale_factor * sg.config.gizmo_size - (width * 24) \div 10
    IN  EdgeOn(sg, Scale(local_normal(sg), width), Scale(local_normal(sg), length))

\* One of the two span endpoint pairs of a plane handle is edge-on.
PlaneEdgeOn(sg) ==
    LET origin == translation_plane_global_origin(sg)
        half == translation_plane_size(sg) \div 2
        a == Scale(translation_plane_binormal(sg.direction), half)
        b == Scale(translation_plane_tangent(sg.direction), half)
    IN  \/ EdgeOn(sg, Sub(origin, a), Add(origin, a))
        \/ EdgeOn(sg, Sub(origin, b), Add(origin, b))

\* C5: when a vector handle's two segment endpoints, or either of a plane
\* handle's two span endpoint pairs, project to screen points less than 5
\* apart, the pick returns None for every ray and leaves the persisted state
\* as it was, and the draw paints nothing.
C5_EdgeOnDegeneracy ==
    [][/\ (call'.op = "pick_translation" /\ VectorEdgeOn(Gizmo))
            => call'.ret = None /\ tstate' = tstate
       /\ (call'.op = "pick_translation_plane" /\ PlaneEdgeOn(Gizmo))
            => call'.ret = None /\ tstate' = tstate
       /\ (call'.op = "draw_translation" /\ VectorEdgeOn(Gizmo))
            => call'.drawn = {}
       /\ (call'.op = "draw_translation_plane" /\ PlaneEdgeOn(Gizmo))
            => call'.drawn = {}]_vars

\* A pick of an edge-on vector handle with a ray that runs within
\* focus_distance of its axis, after an update has left a delta in the state.
C5_EdgeOnPicked ==
    /\ call.op = "pick_translation"
    /\ VectorEdgeOn(Gizmo)
    /\ Dot(call.ray.direction, normal(Gizmo)) = 0
    /\ Abs(Dot(Sub(call.ray.origin, translation),
               Cross(normal(Gizmo), call.ray.direction))) <= Gizmo.config.focus_distance
    /\ call.ret = None
    /\ tstate.current_delta # ZERO

\* The squared distance of the point q from the ray's segment: from the foot
\* of the perpendicular, or from the end of the segment the foot lies beyond
\* (the ray's direction is a unit vector).
DistSqFromRay(q, ray) ==
    LET along == Dot(Sub(q, ray.origin), ray.direction)
        s == IF along < 0 THEN 0 ELSE IF along > ray_length THEN ray_length ELSE along
    IN  LengthSq(Sub(q, Add(ray.origin, Scale(ray.direction, s))))

\* q is a point of the handle's axis segment [origin, origin + dir * length]
\* that no other point of the segment is nearer to the ray than.
ClosestOnAxisSegment(sg, q, ray) ==
    LET length == sg.config.scale_factor * sg.config.gizmo_size
        At(k) == Add(sg.config.translation, Scale(normal(sg), k))
    IN  /\ \E k \in 0..length : q = At(k)
        /\ \A k \in 0..length : DistSqFromRay(q, ray) <= DistSqFromRay(At(k), ray)

\* The angle around the handle's normal at which the ray of a pick_rotation
\* call meets the handle's plane, t the ray parameter the call returned.
PickedAxisAngle(sg, ray, t) ==
    LET offset == Sub(Add(ray.origin, Scale(ray.direction, t)), sg.config.translation)
        forward == IF sg.config.left_handed THEN Neg(view_forward(sg.config))
                   ELSE view_forward(sg.config)
    IN  IF sg.direction = "Screen"
        THEN Atan2(Dot(Cross(tangent(sg), normal(sg)), offset), Dot(tangent(sg), offset))
        ELSE Atan2(Dot(Cross(offset, forward), normal(sg)), Dot(offset, forward))

\* The screen-space angle of the pointer around the projected gizmo origin,
\* mirrored when the handle's normal points against the view direction; 0 when
\* there is no such angle.
PointerAngle(sg, ui) ==
    LET gizmo_pos == world_to_screen(sg.config.view, config_mvp(sg), ZERO)
    IN  IF ui.hover_pos = None \/ gizmo_pos = None \/ ui.hover_pos = gizmo_pos THEN 0
        ELSE LET d == <<Unwrap(ui.hover_pos)[1] - Unwrap(gizmo_pos)[1],
                        Unwrap(ui.hover_pos)[2] - Unwrap(gizmo_pos)[2]>>
             IN  IF Dot(view_forward(sg.config), normal(sg)) < 0
                 THEN -Atan2(d[2], d[1])
                 ELSE Atan2(d[2], d[1])

\* C6: a pick that reports a hit seeds the drag state wholesale, whatever was
\* there: pick_translation leaves start_point = last_point = the closest
\* point on the axis segment and current_delta = 0; pick_translation_plane
\* leaves start_point = last_point = the ray/plane intersection and
\* current_delta = 0; pick_rotation leaves start_rotation_angle =
\* last_rotation_angle = the pointer angle, start_axis_angle = the picked
\* axis angle and current_delta = 0.
C6_PickSeedsState ==
    [][/\ (call'.op = "pick_translation" /\ call'.ret # None)
            => /\ ClosestOnAxisSegment(Gizmo, tstate'.start_point, call'.ray)
               /\ tstate'.last_point = tstate'.start_point
               /\ tstate'.current_delta = ZERO
       /\ (call'.op = "pick_translation_plane" /\ call'.ret # None)
            => /\ tstate'.start_point
                    = Add(call'.ray.origin, Scale(call'.ray.direction, Unwrap(call'.ret)))
               /\ Dot(Sub(tstate'.start_point, translation_plane_global_origin(Gizmo)),
                      normal(Gizmo)) = 0
               /\ tstate'.last_point = tstate'.start_point
               /\ tstate'.current_delta = ZERO
       /\ (call'.op = "pick_rotation" /\ call'.ret # None)
            => LET sg == SubGizmo(handle, translation, NoSnap, call'.left_handed, FALSE)
               IN  /\ rstate'.start_rotation_angle = PointerAngle(sg, call'.ui)
                   /\ rstate'.last_rotation_angle = PointerAngle(sg, call'.ui)
                   /\ rstate'.start_axis_angle
                        = Num(PickedAxisAngle(sg, call'.ray, Unwrap(call'.ret)))
                   /\ rstate'.current_delta = 0]_vars

\* A pick that hit a vector handle which an earlier drag had moved.
C6_PickedAfterDrag ==
    /\ call.op = "pick_translation"
    /\ call.ret # None
    /\ translation # ZERO
    /\ tstate.start_point # ZERO
    /\ tstate.last_point = tstate.start_point
    /\ tstate.current_delta = ZERO

\* C7 as stated: for a visible plane handle, pick_translation_plane returns
\* Some(t), t the ray parameter of the intersection, if and only if the
\* ray/plane intersection lies within translation_plane_size / 2 of the
\* patch's offset origin.
C7_PlanePickWithinHalfSize ==
    (call.op = "pick_translation_plane" /\ ~PlaneEdgeOn(Gizmo))
        => LET origin == translation_plane_global_origin(Gizmo)
               hit == point_on_plane(normal(Gizmo), origin, call.ray)
               half == translation_plane_size(Gizmo) \div 2
           IN  /\ call.ret # None
                    <=> /\ hit # None
                        /\ LengthSq(Sub(Unwrap(hit), origin)) <= half * half
               /\ call.ret # None
                    => Unwrap(hit)
                         = Add(call.ray.origin, Scale(call.ray.direction, Unwrap(call.ret)))

\* The degenerate inputs of update_rotation: no pointer, a gizmo origin that
\* does not project, a pointer on the projected origin.
RotationInputDegenerate(sg, ui) ==
    LET gizmo_pos == world_to_screen(sg.config.view, config_mvp(sg), ZERO)
    IN  ui.hover_pos = None \/ gizmo_pos = None \/ ui.hover_pos = gizmo_pos

\* C8: update_rotation returns None when the pointer position is unavailable,
\* the gizmo origin does not project, or the pointer is on the projected
\* origin; update_translation_plane returns None when the ray does not meet
\* the handle's plane; and a call of an update function that returns None
\* leaves the persisted drag state as it was.
C8_DegenerateInputNoChange ==
    [][/\ (call'.op = "update_rotation" /\ RotationInputDegenerate(Gizmo, call'.ui))
            => call'.ret = None
       /\ (/\ call'.op = "update_translation_plane"
           /\ Dot(normal(Gizmo), call'.ray.direction) = 0)
            => call'.ret = None
       /\ (/\ call'.op \in {"update_translation", "update_translation_plane",
                            "update_rotation"}
           /\ call'.ret = None)
            => tstate' = tstate /\ rstate' = rstate /\ translation' = translation]_vars

\* An update_rotation without a pointer in a drag that had turned the handle.
C8_PointerLostInDrag ==
    /\ call.op = "update_rotation"
    /\ call.ui.hover_pos = None
    /\ call.ret = None
    /\ rstate.current_delta # 0

\* C9: with d = |normal . view_forward| in thousandths, arc_angle is PI/2 for
\* d <= 990, PI for d >= 995 and PI/2 + (PI/2) * (d - 990) / 5 between; it
\* lies in [PI/2, PI] and does not decrease as d grows.
C9_ArcAngleRule ==
    /\ arc.dot <= 990 => arc.angle = FRAC_PI_2
    /\ arc.dot >= 995 => arc.angle = PI
    /\ (990 < arc.dot /\ arc.dot < 995)
          => 5 * (arc.angle - FRAC_PI_2) = FRAC_PI_2 * (arc.dot - 990)
    /\ FRAC_PI_2 <= arc.angle /\ arc.angle <= PI
    /\ arc.prev_dot <= arc.dot => arc.prev_angle <= arc.angle

\* An evaluation inside the interpolation range after one below it, and the
\* angle has grown.
C9_Interpolated ==
    /\ arc.prev_dot = 990
    /\ arc.dot = 993
    /\ arc.prev_angle < arc.angle
    /\ arc.angle < PI

\* C10: with snapping, update_translation replaces the delta (new point -
\* start_point) by a vector of the same direction whose length is the delta's
\* length rounded to the nearest multiple of snap_distance, and leaves a delta
\* of length at most 1e-5 as it is; the stored current_delta then has a length
\* that is a multiple of snap_distance (or at most 1e-5), and last_point is
\* start_point + current_delta.
C10_LinearSnapping ==
    [][(call'.op = "update_translation" /\ call'.snap.snapping)
       => LET delta == Sub(Unwrap(call'.point), tstate.start_point)
              stored == tstate'.current_delta
              step == call'.snap.snap_distance
          IN  /\ Length(delta) <= SnapEps => stored = delta
              /\ Length(delta) > SnapEps
                    => /\ Cross(stored, delta) = ZERO
                       /\ Dot(stored, delta) >= 0
                       /\ Length(stored) % step = 0
                       /\ 2 * Abs(Length(stored) - Length(delta)) <= step
              /\ Length(stored) % step = 0 \/ Length(stored) <= SnapEps
              /\ tstate'.last_point = Add(tstate'.start_point, stored)]_vars

\* A snapped update whose delta was not a multiple of the snap distance: the
\* stored delta is the nearest multiple, in the delta's direction.
C10_Rounded ==
    /\ call.op = "update_translation"
    /\ call.snap.snapping
    /\ drag.picked
    /\ Length(Sub(Unwrap(call.point), tstate.start_point)) % call.snap.snap_distance # 0
    /\ Length(Sub(Unwrap(call.point), tstate.start_point)) > SnapEps
    /\ tstate.current_delta # ZERO
    /\ Length(tstate.current_delta) % call.snap.snap_distance = 0
    /\ tstate.last_point = Add(tstate.start_point, tstate.current_delta)

\* The spans of a plane handle as snap_translation_plane turns them.
PlaneSpan(sg, v) == IF sg.config.local_space THEN Rotate(sg.config.rotation, v) ELSE v

\* x with its magnitude rounded to the nearest multiple of step.
RoundComponent(x, step) == Sign(x) * round_to_interval(Abs(x), step)

\* C11 as stated, for components that are zero or longer than 1e-5: with
\* snapping, update_translation_plane stores for the in-plane delta
\* a * binormal + b * tangent the delta round(|a|) * sign(a) * binormal +
\* round(|b|) * sign(b) * tangent, each component rounded to the nearest
\* multiple of snap_distance on its own, also when the other one is zero.
C11_PlanarSnapping ==
    [][(/\ call'.op = "update_translation_plane"
        /\ call'.snap.snapping
        /\ call'.ret # None)
       => LET span_a == PlaneSpan(Gizmo, translation_plane_binormal(handle.direction))
              span_b == PlaneSpan(Gizmo, translation_plane_tangent(handle.direction))
              delta == Sub(Unwrap(call'.point), tstate.start_point)
              a == Dot(delta, span_a)
              b == Dot(delta, span_b)
              step == call'.snap.snap_distance
          IN  (/\ delta = Add(Scale(span_a, a), Scale(span_b, b))
               /\ a = 0 \/ Abs(a) > SnapEps
               /\ b = 0 \/ Abs(b) > SnapEps)
              => tstate'.current_delta
                   = Add(Scale(span_a, RoundComponent(a, step)),
                         Scale(span_b, RoundComponent(b, step)))]_vars

\* The persisted delta is the difference of the last and the start point.
DeltaIsLastMinusStart(state) ==
    state.current_delta = Sub(state.last_point, state.start_point)

TranslationPicks == {"pick_translation", "pick_translation_plane"}

\* C12 as stated: in every state reached from the default state by picks and
\* updates of a translation handle, current_delta = last_point - start_point,
\* and current_delta is set to zero only by a pick.
C12_DeltaZeroedOnlyByPick ==
    [][/\ DeltaIsLastMinusStart(tstate)
       /\ DeltaIsLastMinusStart(tstate')
       /\ (tstate.current_delta # ZERO /\ tstate'.current_delta = ZERO)
            => call'.op \in TranslationPicks]_vars

\* C12 amended: in every such state current_delta = last_point - start_point;
\* start_point is changed only by a pick, and an update sets current_delta to
\* zero only by resolving the ray to start_point itself.
C12_DeltaInvariant ==
    [][/\ DeltaIsLastMinusStart(tstate)
       /\ DeltaIsLastMinusStart(tstate')
       /\ tstate'.start_point # tstate.start_point => call'.op \in TranslationPicks
       /\ (/\ tstate.current_delta # ZERO
           /\ tstate'.current_delta = ZERO
           /\ call'.op \notin TranslationPicks)
            => /\ call'.op \in {"update_translation", "update_translation_plane"}
               /\ tstate'.last_point = tstate.start_point]_vars

\* A snapped update of a plane handle that moved the delta off the point the
\* ray resolved to, in a drag that did not start at the origin.
C12_SnappedDelta ==
    /\ call.op = "update_translation_plane"
    /\ call.snap.snapping
    /\ call.ret # None
    /\ tstate.start_point # ZERO
    /\ tstate.current_delta # ZERO
    /\ tstate.last_point # Unwrap(call.point)
    /\ DeltaIsLastMinusStart(tstate)

\* C13 as stated: a call of pick_translation, pick_translation_plane or
\* pick_rotation that returns None leaves the handle's persisted drag state
\* (start, last, current_delta) as it was before the call.
C13_MissLeavesState ==
    [][(/\ call'.op \in {"pick_translation", "pick_translation_plane", "pick_rotation"}
        /\ call'.ret = None)
       => tstate' = tstate /\ rstate' = rstate]_vars

\* C14 as stated: in a drag whose updates all snap to the same snap_angle > 0,
\* after every update_rotation call the stored current_delta is an integer
\* multiple of snap_angle, also when the pointer angle wraps past +-180
\* degrees between two frames.
C14_DeltaOnSnapGrid ==
    (/\ call.op = "update_rotation"
     /\ call.ret # None
     /\ drag.picked
     /\ drag.snap_angle > 0)
        => rstate.current_delta % drag.snap_angle = 0

====
